---- MODULE Spec2Model ----
(***************************************************************************)
(* Model of mlmachine.features.selection.FeatureSelector:                  *)
(*   featureSelectorSummary  - consensus table of the ranking methods      *)
(*   featureSelectorCrossVal - progressive-elimination cross-validation    *)
(*   featuresUsedSummary     - presence table of the best subsets          *)
(*   featureSelectorResultsPlot - best subset per estimator (no drawing)   *)
(*                                                                         *)
(* A feature is named by its column position in self.data.  Numbers are    *)
(* exact rationals [num, den] in lowest terms.  A DataFrame is a record    *)
(* [index, columns, values] with values[r][c] the cell of row r, column c. *)
(***************************************************************************)
EXTENDS Integers, Sequences, FiniteSets, TLC

\* ------------------------------------------------------------------ bounds
MaxFeatures == 5       \* columns of self.data in the pipeline
MaxRankedFeatures == 3  \* columns of self.data when every ranking varies freely
MaxStep == 3            \* largest step argument
MaxRecords == 4         \* |estimators| * |metrics| * K of one invocation

NumFolds == 2           \* the nFolds argument

RankValues == {1, 2}
EstimatorNames == {"A", "B"}
MetricNames == {"accuracy", "f1"}

\* ------------------------------------------------------------- arithmetic
Abs(n) == IF n < 0 THEN -n ELSE n

RECURSIVE GCD(_, _)
GCD(a, b) == IF b = 0 THEN a ELSE GCD(b, a % b)

Rat(n, d) ==
    LET g == GCD(Abs(n), Abs(d))
        s == IF d < 0 THEN -1 ELSE 1
    IN  IF d = 0 THEN [num |-> 0, den |-> 0]   \* NaN
        ELSE [num |-> s * (n \div g), den |-> s * (d \div g)]

RatInt(n) == [num |-> n, den |-> 1]
RatAdd(a, b) == Rat(a.num * b.den + b.num * a.den, a.den * b.den)
RatSub(a, b) == Rat(a.num * b.den - b.num * a.den, a.den * b.den)
RatMul(a, b) == Rat(a.num * b.num, a.den * b.den)
RatDiv(a, n) == Rat(a.num, a.den * n)
RatLess(a, b) == a.num * b.den < b.num * a.den

RECURSIVE RatSum(_)
RatSum(s) == IF s = << >> THEN RatInt(0) ELSE RatAdd(s[1], RatSum(Tail(s)))

NaN == [num |-> 0, den |-> 0]

\* skipna=True: the cells of a row that hold a number
DropNa(s) == SelectSeq(s, LAMBDA x : x # NaN)

RECURSIVE MinOf(_)
MinOf(s) ==
    IF Len(s) = 1 THEN s[1]
    ELSE LET m == MinOf(Tail(s)) IN IF RatLess(m, s[1]) THEN m ELSE s[1]

RECURSIVE MaxOf(_)
MaxOf(s) ==
    IF Len(s) = 1 THEN s[1]
    ELSE LET m == MaxOf(Tail(s)) IN IF RatLess(s[1], m) THEN m ELSE s[1]

\* pandas min(axis=1) and max(axis=1) of one row: NaN cells are skipped, a
\* row of nothing but NaN gives NaN
RatMinSeq(s) == IF DropNa(s) = << >> THEN NaN ELSE MinOf(DropNa(s))
RatMaxSeq(s) == IF DropNa(s) = << >> THEN NaN ELSE MaxOf(DropNa(s))

\* ndarray.mean() of a 1-d array: a NaN in it gives NaN
Mean(s) == RatDiv(RatSum(s), Len(s))

\* pandas mean(axis=1) of one row: the mean of the cells that are not NaN
RowMean(s) == Mean(DropNa(s))

\* the sample variance (ddof = 1) of n numbers, NaN for n < 2
SampleVariance(s) ==
    LET n == Len(s)
        sq == [k \in 1..n |-> RatMul(s[k], s[k])]
    IN  Rat(RatSub(RatMul(RatInt(n), RatSum(sq)),
                   RatMul(RatSum(s), RatSum(s))).num,
            RatSub(RatMul(RatInt(n), RatSum(sq)),
                   RatMul(RatSum(s), RatSum(s))).den * n * (n - 1))

\* pandas std(axis=1), ddof = 1, of one row, held as its square: NaN cells
\* are skipped
Variance(s) == SampleVariance(DropNa(s))

Ceil(a, b) == (a + b - 1) \div b

\* --------------------------------------------------------------- DataFrame
Range(s) == {s[k] : k \in 1..Len(s)}
Take(s, n) == SubSeq(s, 1, n)
Drop(s, n) == SubSeq(s, n + 1, Len(s))

RECURSIVE Concat(_)
Concat(ss) == IF ss = << >> THEN << >> ELSE ss[1] \o Concat(Tail(ss))

RowOf(df, name) == CHOOSE r \in 1..Len(df.index) : df.index[r] = name
ColOf(df, name) == CHOOSE c \in 1..Len(df.columns) : df.columns[c] = name
Column(df, name) == [r \in 1..Len(df.index) |-> df.values[r][ColOf(df, name)]]

\* df.iloc[:, k:] as the list of its rows
ILocFrom(df, k) == [r \in 1..Len(df.index) |-> Drop(df.values[r], k)]

\* df.insert(loc, column, value)
Insert(df, loc, column, value) ==
    [index |-> df.index,
     columns |-> Take(df.columns, loc) \o <<column>> \o Drop(df.columns, loc),
     values |-> [r \in 1..Len(df.index) |->
                   Take(df.values[r], loc) \o <<value[r]>> \o Drop(df.values[r], loc)]]

\* (mutant) a join on the first frame's labels
ConcatFirstIndex(frames) == frames[1].index

\* pd.concat(results, join="inner", axis=1): the rows are the labels of the
\* first frame that every frame has, in the first frame's order
ConcatInnerIndex(frames) ==
    SelectSeq(frames[1].index,
              LAMBDA f : \A k \in 1..Len(frames) : f \in Range(frames[k].index))

\* frame.reindex(index): the row of a label, NaN where the frame lacks it
RowAt(frame, label) ==
    IF label \in Range(frame.index) THEN frame.values[RowOf(frame, label)]
    ELSE [c \in 1..Len(frame.columns) |-> NaN]

ConcatInner(frames) ==
    LET ix == ConcatInnerIndex(frames) IN
    [index |-> ix,
     columns |-> Concat([k \in 1..Len(frames) |-> frames[k].columns]),
     values |-> [r \in 1..Len(ix) |->
                   Concat([k \in 1..Len(frames) |-> RowAt(frames[k], ix[r])])]]

\* sort_values sorts with kind="quicksort": numpy's argsort of that kind, an
\* introsort on the row numbers.  A range of more than SmallQuicksort + 1 rows
\* is partitioned around the median of its first, middle and last row, the
\* larger part is put on a stack and the smaller one is gone on with; a range
\* of at most SmallQuicksort + 1 rows is sorted by insertion, which keeps rows
\* of equal keys in order.  Every partition takes one from the depth left,
\* 2 * floor(log2(n)) at the start; a range taken from the stack with no depth
\* left is sorted by heapsort, which does not keep rows of equal keys in order.
SmallQuicksort == 16

\* numpy's order of doubles: a < b || (b != b && a == a), NaN after every number
DoubleLess(a, b) == RatLess(a, b) \/ (b = NaN /\ a # NaN)

Swap(t, a, b) == [t EXCEPT ![a] = t[b], ![b] = t[a]]

\* if (v[*b] < v[*a]) INTP_SWAP(*b, *a)
SwapIfLess(v, t, b, a) == IF DoubleLess(v[t[b]], v[t[a]]) THEN Swap(t, b, a) ELSE t

\* the median of three: the rows at pl, pm, pr put in order of their keys
MedianOfThree(v, t, pl, pm, pr) ==
    SwapIfLess(v, SwapIfLess(v, SwapIfLess(v, t, pm, pl), pr, pm), pm, pl)

\* do ++pi while v[*pi] < vp, from pi
RECURSIVE ScanUp(_, _, _, _)
ScanUp(v, t, vp, pi) ==
    IF DoubleLess(v[t[pi]], vp) THEN ScanUp(v, t, vp, pi + 1) ELSE pi

\* do --pj while vp < v[*pj], from pj
RECURSIVE ScanDown(_, _, _, _)
ScanDown(v, t, vp, pj) ==
    IF DoubleLess(vp, v[t[pj]]) THEN ScanDown(v, t, vp, pj - 1) ELSE pj

\* the for (;;) loop of the partition: PartitionLoop scans from both ends,
\* PartitionSwap breaks when the scans have met and swaps otherwise
RECURSIVE PartitionLoop(_, _, _, _, _)
RECURSIVE PartitionSwap(_, _, _, _, _)
PartitionLoop(v, t, vp, pi, pj) ==
    PartitionSwap(v, t, vp, ScanUp(v, t, vp, pi + 1), ScanDown(v, t, vp, pj - 1))

PartitionSwap(v, t, vp, pi, pj) ==
    IF pi >= pj THEN [t |-> t, pi |-> pi]
    ELSE PartitionLoop(v, Swap(t, pi, pj), vp, pi, pj)

\* the pivot swapped to pr - 1, and swapped back to where the scans met
PivotOut(v, t, pl, pm, pr) == PartitionLoop(v, Swap(t, pm, pr - 1), v[t[pm]], pl, pr - 1)
PivotBack(loop, pr) == [t |-> Swap(loop.t, loop.pi, pr - 1), pi |-> loop.pi]

\* one partition of the rows pl..pr: the rows after it and where the pivot is
PartitionAt(v, t, pl, pm, pr) ==
    PivotBack(PivotOut(v, MedianOfThree(v, t, pl, pm, pr), pl, pm, pr), pr)
Partition(v, t, pl, pr) == PartitionAt(v, t, pl, pl + ((pr - pl) \div 2), pr)

\* the row at pi put where it belongs among the sorted rows pl..pi-1
InsertRow(v, t, pl, pi) ==
    LET vp == v[t[pi]]
        pj == CHOOSE j \in pl..pi :
                 /\ \A k \in j..(pi - 1) : DoubleLess(vp, v[t[k]])
                 /\ j > pl => ~DoubleLess(vp, v[t[j - 1]])
    IN  SubSeq(t, 1, pj - 1) \o <<t[pi]>> \o SubSeq(t, pj, pi - 1)
            \o SubSeq(t, pi + 1, Len(t))

RECURSIVE InsertionSort(_, _, _, _, _)
InsertionSort(v, t, pl, pr, pi) ==
    IF pi > pr THEN t ELSE InsertionSort(v, InsertRow(v, t, pl, pi), pl, pr, pi + 1)

\* aheapsort on the rows a[1..n].  LargerChild: if (j < n && v[a[j]] <
\* v[a[j + 1]]) j += 1
LargerChild(v, a, j, n) ==
    IF j < n /\ DoubleLess(v[a[j]], v[a[j + 1]]) THEN j + 1 ELSE j

\* the inner for (i, j; j <= n;) loop: the row tmp sinks from place i
RECURSIVE SiftDown(_, _, _, _, _, _)
RECURSIVE SiftStep(_, _, _, _, _, _)
SiftDown(v, a, tmp, i, j, n) ==
    IF j <= n THEN SiftStep(v, a, tmp, i, LargerChild(v, a, j, n), n)
    ELSE [a EXCEPT ![i] = tmp]

SiftStep(v, a, tmp, i, j, n) ==
    IF DoubleLess(v[tmp], v[a[j]])
    THEN SiftDown(v, [a EXCEPT ![i] = a[j]], tmp, j, j + j, n)
    ELSE [a EXCEPT ![i] = tmp]

\* for (l = n >> 1; l > 0; --l): the heap is built
RECURSIVE BuildHeap(_, _, _, _)
BuildHeap(v, a, l, n) ==
    IF l \in 1..Len(a)
    THEN BuildHeap(v, SiftDown(v, a, a[l], l, l + l, n), l - 1, n)
    ELSE a

\* for (; n > 1;): the largest row goes to the end of the heap
RECURSIVE DrainHeap(_, _, _)
DrainHeap(v, a, n) ==
    IF n \in 2..Len(a)
    THEN DrainHeap(v, SiftDown(v, [a EXCEPT ![n] = a[1]], a[n], 1, 2, n - 1), n - 1)
    ELSE a

HeapSorted(v, a) == DrainHeap(v, BuildHeap(v, a, Len(a) \div 2, Len(a)), Len(a))

\* the rows pl.. of t replaced by the rows a
Splice(t, pl, a) ==
    SubSeq(t, 1, pl - 1) \o a \o SubSeq(t, pl + Len(a), Len(t))

\* aheapsort_(vv, pl, pr - pl + 1)
AHeapSort(v, t, pl, pr) == Splice(t, pl, HeapSorted(v, SubSeq(t, pl, pr)))

\* npy_get_msb(n): floor(log2(n))
RECURSIVE NpyGetMsb(_)
NpyGetMsb(n) == IF n > 1 THEN 1 + NpyGetMsb(n \div 2) ELSE 0

\* for (i = 0; i < n; i++) tosort[i] = i: the row numbers in order
RECURSIVE RowNumbers(_)
RowNumbers(n) == IF n = 0 THEN << >> ELSE Append(RowNumbers(n - 1), n)

RECURSIVE AQuickSort(_, _, _, _, _, _)
RECURSIVE WhileLarge(_, _, _, _, _, _)
RECURSIVE PushLarger(_, _, _, _, _, _)
RECURSIVE PopStack(_, _, _)

\* after a partition: the larger part is pushed with the depth left, the
\* smaller one gone on with (*psdepth++ = --cdepth)
PushLarger(v, part, pl, pr, stack, cdepth) ==
    IF part.pi - pl < pr - part.pi
    THEN WhileLarge(v, part.t, pl, part.pi - 1,
                    Append(stack, <<part.pi + 1, pr, cdepth>>), cdepth)
    ELSE WhileLarge(v, part.t, part.pi + 1, pr,
                    Append(stack, <<pl, part.pi - 1, cdepth>>), cdepth)

\* stack_pop: the range on top of the stack and its depth, if there is one
PopStack(v, t, stack) ==
    IF stack = << >> THEN t
    ELSE AQuickSort(v, t, stack[Len(stack)][1], stack[Len(stack)][2],
                    Take(stack, Len(stack) - 1), stack[Len(stack)][3])

\* while ((pr - pl) > SMALL_QUICKSORT) partition; then the insertion sort
WhileLarge(v, t, pl, pr, stack, cdepth) ==
    IF pr - pl > SmallQuicksort
    THEN PushLarger(v, Partition(v, t, pl, pr), pl, pr, stack, cdepth - 1)
    ELSE PopStack(v, InsertionSort(v, t, pl, pr, pl + 1), stack)

\* the top of the while (1) loop: heapsort when no depth is left
AQuickSort(v, t, pl, pr, stack, cdepth) ==
    IF cdepth < 0 THEN PopStack(v, AHeapSort(v, t, pl, pr), stack)
    ELSE WhileLarge(v, t, pl, pr, stack, cdepth)

\* keys.argsort(kind="quicksort"): the row numbers in ascending order of key
ArgSort(keys) ==
    AQuickSort(keys, RowNumbers(Len(keys)), 1, Len(keys), << >>,
               NpyGetMsb(Len(keys)) * 2)

\* pandas nargsort, na_position="last": the rows whose key is a number are
\* sorted, the rows whose key is NaN follow them in their order
NonNaNRows(keys) == SelectSeq([r \in 1..Len(keys) |-> r], LAMBDA r : keys[r] # NaN)
NaNRows(keys) == SelectSeq([r \in 1..Len(keys) |-> r], LAMBDA r : keys[r] = NaN)
TakeRows(s, rows) == [k \in 1..Len(rows) |-> s[rows[k]]]
SortRows(keys, rows) == TakeRows(rows, ArgSort(TakeRows(keys, rows)))
NArgSort(keys) == SortRows(keys, NonNaNRows(keys)) \o NaNRows(keys)

\* df.sort_values(by) ascending
SortValues(df, by) ==
    LET perm == NArgSort(Column(df, by)) IN
    [index |-> [p \in 1..Len(perm) |-> df.index[perm[p]]],
     columns |-> df.columns,
     values |-> [p \in 1..Len(perm) |-> df.values[perm[p]]]]

\* ------------------------------------------------------------------- state
VARIABLES
    data_columns,    \* self.data.columns
    estimators,      \* self.estimators
    rankings,        \* what the five ranking methods return (lines 76-83)
    resultsSummary,  \* self.resultsSummary
    cvOracle,        \* cross_validate: outcome of each (estimator, metric, top)
    cvSummary,       \* self.cvSummary, a list of rows
    call,            \* arguments and locals of featureSelectorCrossVal
    pc,              \* where the caller is
    prev,            \* arguments and return value of the previous invocation
    report           \* value of the last featuresUsedSummary / ResultsPlot call

vars == <<data_columns, estimators, rankings, resultsSummary,
          cvOracle, cvSummary, call, pc, prev, report>>

None == [none |-> TRUE]
NoReport == [kind |-> "none"]

\* ------------------------------------------------- featureSelectorSummary
\* lines 85-95: the consensus table of the ranking results
SummaryConcat(results) == ConcatInner(results)

SummaryAverage(df) ==
    Insert(df, 0, <<"average">>, [r \in 1..Len(df.index) |-> RowMean(df.values[r])])

SummaryStdev(df) ==
    Insert(df, 1, <<"stdev">>,
           [r \in 1..Len(df.index) |-> Variance(ILocFrom(df, 1)[r])])

SummaryLow(df) ==
    Insert(df, 2, <<"low">>,
           [r \in 1..Len(df.index) |-> RatMinSeq(ILocFrom(df, 2)[r])])

SummaryHigh(df) ==
    Insert(df, 3, <<"high">>,
           [r \in 1..Len(df.index) |-> RatMaxSeq(ILocFrom(df, 3)[r])])

Summary(results) ==
    SortValues(SummaryHigh(SummaryLow(SummaryStdev(SummaryAverage(
                   SummaryConcat(results))))),
               <<"average">>)

\* results = [FScore, Variance, Corr, RFE, Importance] (line 86)
SummaryResults(r) ==
    <<r.resultsFScore, r.resultsVariance, r.resultsCorr, r.resultsRFE,
      r.resultsImportance>>

featureSelectorSummary ==
    /\ pc = "new"
    /\ resultsSummary' = Summary(SummaryResults(rankings))
    /\ pc' = "ready"
    /\ UNCHANGED <<data_columns, estimators, rankings, cvOracle,
                   cvSummary, call, prev, report>>

\* --------------------------------------------------- the ranking results
\* A ranking result: one row per feature of index, one column per name, every
\* column holding the values vec[feature].
Frame(index, columns, vec) ==
    [index |-> index,
     columns |-> columns,
     values |-> [r \in 1..Len(index) |->
                   [c \in 1..Len(columns) |-> RatInt(vec[index[r]])]]]

Reverse(s) == [k \in 1..Len(s) |-> s[Len(s) + 1 - k]]
Without(s, omit) == SelectSeq(s, LAMBDA f : f \notin omit)

\* featureSelectorFScoreClass / Variance / Corr / RFE / Importance: the index
\* is self.data.columns, but for Corr (the numeric columns, sorted by
\* correlation); the columns are those the methods name
Rankings(cols, ests, vecs, corrIndex) ==
    [resultsFScore |-> Frame(cols, <<(<<"F-value">>), <<"p-value">> >>, vecs[1]),
     resultsVariance |-> Frame(cols, <<(<<"Variance">>)>>, vecs[2]),
     resultsCorr |-> Frame(corrIndex, <<(<<"TargetCorrelation">>)>>, vecs[3]),
     resultsRFE |-> Frame(cols, [k \in 1..Len(ests) |-> <<"RFE", ests[k]>>], vecs[4]),
     resultsImportance |->
         Frame(cols, [k \in 1..Len(ests) |-> <<"FeatureImportance", ests[k]>>],
               vecs[5])]

\* ------------------------------------------------ featureSelectorCrossVal
\* (mutant) an arange that reaches stop
ARangeInclusive(start, stop, step) ==
    [k \in 1..(IF stop >= start THEN (stop - start) \div step + 1 ELSE 0) |->
       start + (k - 1) * step]

\* np.arange(start, stop, step)
ARange(start, stop, step) ==
    [k \in 1..(IF stop > start THEN Ceil(stop - start, step) ELSE 0) |->
       start + (k - 1) * step]

\* index[:-n]
DropLast(s, n) == Take(s, IF Len(s) > n THEN Len(s) - n ELSE 0)

\* lines 312-316: the features cross-validated at sweep index i
Top(summary, i) ==
    IF i = 0 THEN SortValues(summary, <<"average">>).index
    ELSE DropLast(SortValues(summary, <<"average">>).index, i)

\* (mutant) the loops over metrics and subsets swapped
TodoSubsetsOutside(metrics, summary, step) ==
    Concat([k \in 1..Len(ARange(0, Len(summary.index), step)) |->
              [m \in 1..Len(metrics) |->
                 [metric |-> metrics[m],
                  i |-> ARange(0, Len(summary.index), step)[k]]]])

\* lines 308-310: the (metric, i) pairs of one estimator, in loop order
Todo(metrics, summary, step) ==
    Concat([m \in 1..Len(metrics) |->
              LET sweep == ARange(0, Len(summary.index), step) IN
              [k \in 1..Len(sweep) |-> [metric |-> metrics[m], i |-> sweep[k]]]])

\* What cross_validate can do (lines 318-325): raise, on a subset of a single
\* feature, or return nFolds training scores and nFolds held-out scores.  Fold
\* scores are 0 or 1, s of the held-out folds score 1 (none, one or all of
\* them) and one more of the training folds does.
FoldVector(s, n) == [k \in 1..n |-> RatInt(IF k > n - s THEN 1 ELSE 0)]

Raises == [raises |-> TRUE, train_score |-> << >>, test_score |-> << >>]

Scores(s, n) ==
    [raises |-> FALSE,
     train_score |-> FoldVector(IF s < n THEN s + 1 ELSE n, n),
     test_score |-> FoldVector(s, n)]

CVOutcomes(top, n) ==
    {Scores(s, n) : s \in {0, 1, n}} \cup (IF Len(top) = 1 THEN {Raises} ELSE {})

\* A cross_validate known beforehand: the held-out folds scoring 1 number
\* (seed + estimator + metric + features) mod (nFolds + 1), and with seed 0 the
\* estimator "B" cannot be fitted on a single feature.
Code(name) == CASE name = "A" -> 0 [] name = "B" -> 1
                 [] name = "accuracy" -> 0 [] name = "f1" -> 2

FixedOutcome(seed, key) ==
    IF seed = 0 /\ key[1] = "B" /\ Len(key[3]) = 1 THEN Raises
    ELSE Scores((seed + Code(key[1]) + Code(key[2]) + Len(key[3])) % (key[4] + 1),
                key[4])

\* cross_validate is a function of its arguments: either one known beforehand,
\* or any, an outcome seen once being the outcome of every later call with the
\* same arguments
AnyOracle == [fixed |-> FALSE, seed |-> 0, seen |-> << >>]
FixedOracle(seed) == [fixed |-> TRUE, seed |-> seed, seen |-> << >>]

CrossValidate(oracle, key) ==
    IF oracle.fixed THEN {FixedOutcome(oracle.seed, key)}
    ELSE IF key \in DOMAIN oracle.seen THEN {oracle.seen[key]}
    ELSE CVOutcomes(key[3], key[4])

Learn(oracle, key, outcome) ==
    IF oracle.fixed \/ key \in DOMAIN oracle.seen THEN oracle
    ELSE [oracle EXCEPT !.seen = @ @@ (key :> outcome)]

\* the outcome of a call that was made
Outcome(oracle, key) ==
    IF oracle.fixed THEN FixedOutcome(oracle.seed, key) ELSE oracle.seen[key]

\* lines 328-332: the row appended for one cross-validation
CvRow(rowIx, name, scores, metric) ==
    [index |-> rowIx,
     Estimator |-> name,
     Training_score |-> Mean(scores.train_score),
     Validation_score |-> Mean(scores.test_score),
     Scoring |-> metric]

\* (mutant) an entry that does not reset self.cvSummary
CrossValEntryKeepingLog(metrics, ests, nFolds, step) ==
    /\ call' = [metrics |-> metrics,
                estimators |-> ests,
                nFolds |-> nFolds,
                step |-> step,
                e |-> 0, pos |-> 1, rowIx |-> 0, cv |-> << >>,
                i |-> -1, top |-> << >>]
    /\ cvSummary' = cvSummary
    /\ pc' = "for_estimator"

\* lines 288-294; resultsSummary is left None, that is self.resultsSummary
CrossValEntry(metrics, ests, nFolds, step) ==
    /\ call' = [metrics |-> metrics,
                estimators |-> ests,
                nFolds |-> nFolds,
                step |-> step,
                e |-> 0, pos |-> 1, rowIx |-> 0, cv |-> << >>,
                i |-> -1, top |-> << >>]
    /\ cvSummary' = << >>
    /\ pc' = "for_estimator"

\* the estimators and metrics arguments tried
EstimatorLists == {<<"A">>, <<"A", "B">>, <<"B", "A">>}
MetricLists == {<<"f1">>, <<"accuracy", "f1">>, <<"f1", "accuracy">>}

Records(metrics, ests, summary, step) ==
    Len(ests) * Len(metrics) * Len(ARange(0, Len(summary.index), step))

featureSelectorCrossVal ==
    /\ pc = "ready"
    /\ \E metrics \in MetricLists, ests \in EstimatorLists \cup {estimators},
          step \in 1..MaxStep :
          /\ Records(metrics, ests, resultsSummary, step) <= MaxRecords
          /\ CrossValEntry(metrics, ests, NumFolds, step)
    /\ UNCHANGED <<data_columns, estimators, rankings, resultsSummary,
                   cvOracle, prev, report>>

\* The cross_validate calls an invocation makes
CallKeys(metrics, ests, nFolds, step, summary) ==
    {<<ests[e], metrics[m], Top(summary, i), nFolds>> :
        e \in 1..Len(ests), m \in 1..Len(metrics),
        i \in Range(ARange(0, Len(summary.index), step))}

\* A second invocation on the same object, once the first has returned or
\* raised; prev keeps what the first was given and what it left.
featureSelectorCrossValAgain ==
    /\ pc \in {"returned", "raised"}
    /\ prev = None
    /\ prev' = [metrics |-> call.metrics, estimators |-> call.estimators,
                nFolds |-> call.nFolds, step |-> call.step, pc |-> pc,
                log |-> cvSummary]
    /\ \E metrics \in MetricLists, ests \in EstimatorLists \cup {estimators},
          step \in 1..MaxStep :
          /\ Records(metrics, ests, resultsSummary, step) <= MaxRecords
          /\ CrossValEntry(metrics, ests, NumFolds, step)
    /\ report' = NoReport
    /\ UNCHANGED <<data_columns, estimators, rankings, resultsSummary,
                   cvOracle>>

\* lines 297-305: the next estimator
EstimatorBegin ==
    /\ pc = "for_estimator"
    /\ call.e < Len(call.estimators)
    /\ call' = [call EXCEPT !.e = @ + 1, !.cv = << >>, !.rowIx = 0, !.pos = 1]
    /\ pc' = "for_subset"
    /\ UNCHANGED <<data_columns, estimators, rankings, resultsSummary,
                   cvOracle, cvSummary, prev, report>>

CallTodo(c, summary) == Todo(c.metrics, summary, c.step)

\* the arguments of the cross_validate call at hand
CallKey(c, summary) ==
    LET it == CallTodo(c, summary)[c.pos] IN
    <<c.estimators[c.e], it.metric, Top(summary, it.i), c.nFolds>>

\* lines 310-333: one pass of the innermost loop, cross_validate returning
CrossValidateRow ==
    /\ pc = "for_subset"
    /\ call.pos <= Len(CallTodo(call, resultsSummary))
    /\ LET key == CallKey(call, resultsSummary) IN
       \E scores \in CrossValidate(cvOracle, key) :
          /\ ~scores.raises
          /\ cvOracle' = Learn(cvOracle, key, scores)
          /\ call' = [call EXCEPT
                        !.i = CallTodo(call, resultsSummary)[call.pos].i,
                        !.top = key[3],
                        !.cv = Append(@, CvRow(call.rowIx, key[1], scores, key[2])),
                        !.rowIx = @ + 1,
                        !.pos = @ + 1]
    /\ UNCHANGED <<data_columns, estimators, rankings, resultsSummary,
                   cvSummary, pc, prev, report>>

\* lines 318-325: cross_validate raising; nothing catches it
CrossValidateRaises ==
    /\ pc = "for_subset"
    /\ call.pos <= Len(CallTodo(call, resultsSummary))
    /\ LET key == CallKey(call, resultsSummary) IN
       /\ \E scores \in CrossValidate(cvOracle, key) :
             /\ scores.raises
             /\ cvOracle' = Learn(cvOracle, key, scores)
       /\ call' = [call EXCEPT !.i = CallTodo(call, resultsSummary)[call.pos].i,
                               !.top = key[3]]
    /\ pc' = "raised"
    /\ UNCHANGED <<data_columns, estimators, rankings, resultsSummary,
                   cvSummary, prev, report>>

\* (mutant) the estimator's rows replacing the log
EstimatorEndReplacing ==
    /\ pc = "for_subset"
    /\ call.pos > Len(CallTodo(call, resultsSummary))
    /\ cvSummary' = call.cv
    /\ pc' = "for_estimator"
    /\ UNCHANGED <<data_columns, estimators, rankings, resultsSummary,
                   cvOracle, call, prev, report>>

\* line 336: self.cvSummary.append(cv), the rows keeping their labels
EstimatorEnd ==
    /\ pc = "for_subset"
    /\ call.pos > Len(CallTodo(call, resultsSummary))
    /\ cvSummary' = cvSummary \o call.cv
    /\ pc' = "for_estimator"
    /\ UNCHANGED <<data_columns, estimators, rankings, resultsSummary,
                   cvOracle, call, prev, report>>

\* line 342
CrossValReturn ==
    /\ pc = "for_estimator"
    /\ call.e >= Len(call.estimators)
    /\ pc' = "returned"
    /\ UNCHANGED <<data_columns, estimators, rankings, resultsSummary,
                   cvOracle, cvSummary, call, prev, report>>

\* ------------------------------------------------------ best-subset reports
\* Series.unique(): the values in order of first appearance
RECURSIVE Unique(_)
Unique(s) ==
    IF s = << >> THEN << >>
    ELSE LET u == Unique(Take(s, Len(s) - 1)) IN
         IF s[Len(s)] \in Range(u) THEN u ELSE Append(u, s[Len(s)])

\* self.cvSummary[(Scoring == metric) & (Estimator == estimator)]
CvOf(log, metric, estimator) ==
    SelectSeq(log, LAMBDA row : row.Scoring = metric /\ row.Estimator = estimator)

\* cv.reset_index(drop=True)
ResetIndex(cv) == [p \in 1..Len(cv) |-> [cv[p] EXCEPT !.index = p - 1]]

\* cv.set_index(keys=np.arange(0, cv.shape[0] * step, step, dtype=int))
SetIndex(cv, keys) == [p \in 1..Len(cv) |-> [cv[p] EXCEPT !.index = keys[p]]]

\* sort_values(by, ascending=False): pandas reverses the rows whose key is a
\* number, sorts them ascending and reverses the outcome; the rows whose key
\* is NaN follow
ArgSortDescending(keys) ==
    Reverse(SortRows(keys, Reverse(NonNaNRows(keys)))) \o NaNRows(keys)

\* cv.sort_values(["Validation score"], ascending=False)[:1].index.values[0]
BestIndex(cv) ==
    cv[ArgSortDescending([p \in 1..Len(cv) |-> cv[p].Validation_score])[1]].index

\* np.round(x, decimals): x scaled by 10^decimals, rounded to the nearest
\* integer (a half goes to the even one) and scaled back; NaN stays NaN
Round(x, decimals) ==
    LET scaled == x.num * (10 ^ decimals)
        q == scaled \div x.den
        r == scaled % x.den
    IN  IF x = NaN THEN NaN
        ELSE IF 2 * r > x.den \/ (2 * r = x.den /\ q % 2 = 1)
             THEN Rat(q + 1, 10 ^ decimals)
             ELSE Rat(q, 10 ^ decimals)

\* the second argument of np.round (line 390)
ScoreDecimals == 5

\* lines 386-391
BestScore(cv) ==
    Round(cv[ArgSortDescending([p \in 1..Len(cv) |-> cv[p].Validation_score])[1]]
              .Validation_score,
          ScoreDecimals)

\* lines 452-455 and 397-400
FeaturesUsed(summary, numDropped) ==
    IF numDropped > 0
    THEN DropLast(SortValues(summary, <<"average">>).index, numDropped)
    ELSE SortValues(summary, <<"average">>).index

\* lines 443-451: the number of features dropped featuresUsedSummary finds
UsedNumDropped(log, metric, estimator) ==
    BestIndex(ResetIndex(CvOf(log, metric, estimator)))

\* lines 438-466
UsedSummary(log, summary, metric) ==
    LET ests == Unique([p \in 1..Len(log) |-> log[p].Estimator])
        used == [k \in 1..Len(ests) |->
                   FeaturesUsed(summary, UsedNumDropped(log, metric, ests[k]))]
        marks == [r \in 1..Len(summary.index) |->
                    [k \in 1..Len(ests) |->
                       IF summary.index[r] \in Range(used[k]) THEN "X" ELSE ""]]
    IN  [kind |-> "used",
         metric |-> metric,
         index |-> summary.index,
         columns |-> ests,
         marks |-> marks,
         count |-> [r \in 1..Len(summary.index) |->
                      Cardinality({k \in 1..Len(ests) : marks[r][k] = "X"})]]

\* index.values[0] of an empty selection
IndexError(metric) == [kind |-> "IndexError", metric |-> metric]

Reported(log, metric) ==
    \A p \in 1..Len(log) : CvOf(log, metric, log[p].Estimator) # << >>

\* The reports read the object and write nothing of it: one call after a run
\* shows all they do.
featuresUsedSummary ==
    /\ pc \in {"returned", "raised"}
    /\ report.kind = "none"
    /\ \E metric \in MetricNames :
          report' = IF Reported(cvSummary, metric)
                    THEN UsedSummary(cvSummary, resultsSummary, metric)
                    ELSE IndexError(metric)
    /\ UNCHANGED <<data_columns, estimators, rankings, resultsSummary,
                   cvOracle, cvSummary, call, pc, prev>>

\* lines 371-373: the step the plot works out from the number of rows
PlotStep(totalFeatures, iters) == Ceil(totalFeatures, iters)

\* lines 369-385
PlotCv(log, summary, metric, estimator) ==
    LET cv == CvOf(log, metric, estimator)
        step == PlotStep(Len(summary.index), Len(cv))
    IN  SetIndex(cv, ARange(0, Len(cv) * step, step))

PlotNumDropped(log, summary, metric, estimator) ==
    BestIndex(PlotCv(log, summary, metric, estimator))

\* lines 368-407: per estimator, what the title and the printed features show
ResultsPlot(log, summary, metric) ==
    LET ests == Unique([p \in 1..Len(log) |-> log[p].Estimator]) IN
    [kind |-> "plot",
     metric |-> metric,
     plots |-> [k \in 1..Len(ests) |->
        [estimator |-> ests[k],
         numDropped |-> PlotNumDropped(log, summary, metric, ests[k]),
         score |-> BestScore(PlotCv(log, summary, metric, ests[k])),
         featuresUsed |->
             FeaturesUsed(summary,
                          PlotNumDropped(log, summary, metric, ests[k]))]]]

\* totalFeatures / iters with no row selected
ZeroDivisionError(metric) == [kind |-> "ZeroDivisionError", metric |-> metric]

featureSelectorResultsPlot ==
    /\ pc \in {"returned", "raised"}
    /\ report.kind = "none"
    /\ \E metric \in MetricNames :
          report' = IF Reported(cvSummary, metric)
                    THEN ResultsPlot(cvSummary, resultsSummary, metric)
                    ELSE ZeroDivisionError(metric)
    /\ UNCHANGED <<data_columns, estimators, rankings, resultsSummary,
                   cvOracle, cvSummary, call, pc, prev>>

\* ------------------------------------------------------------ the pipeline
\* The rankings of a pipeline run: the five methods agree on vec
AgreedRankings(cols, ests, vec) ==
    Rankings(cols, ests, [k \in 1..5 |-> vec], cols)

PipelineVectors(n) ==
    {[f \in 1..n |-> n + 1 - f], [f \in 1..n |-> 1 + (f % 2)]}

Init ==
    /\ \E n \in 1..MaxFeatures :
          /\ data_columns = [f \in 1..n |-> f]
          /\ estimators = <<"A">>
          /\ \E vec \in PipelineVectors(n) :
                rankings = AgreedRankings(data_columns, estimators, vec)
    /\ resultsSummary = None
    /\ cvOracle = AnyOracle
    /\ cvSummary = << >>
    /\ call = None
    /\ pc = "new"
    /\ prev = None
    /\ report = NoReport

Next ==
    \/ featureSelectorSummary
    \/ featureSelectorCrossVal
    \/ EstimatorBegin
    \/ CrossValidateRow
    \/ CrossValidateRaises
    \/ EstimatorEnd
    \/ CrossValReturn
    \/ featuresUsedSummary
    \/ featureSelectorResultsPlot

Spec == Init /\ [][Next]_vars

\* ------------------------------------------------------ repeated invocations
Seeds == {0, 1}

InitAgain ==
    /\ \E n \in 1..MaxFeatures :
          /\ data_columns = [f \in 1..n |-> f]
          /\ estimators = <<"A">>
          /\ \E vec \in PipelineVectors(n) :
                rankings = AgreedRankings(data_columns, estimators, vec)
    /\ resultsSummary = None
    /\ \E seed \in Seeds : cvOracle = FixedOracle(seed)
    /\ cvSummary = << >>
    /\ call = None
    /\ pc = "new"
    /\ prev = None
    /\ report = NoReport

\* The reports write nothing of the object and are left out here.
NextAgain ==
    \/ featureSelectorSummary
    \/ featureSelectorCrossVal
    \/ featureSelectorCrossValAgain
    \/ EstimatorBegin
    \/ CrossValidateRow
    \/ CrossValidateRaises
    \/ EstimatorEnd
    \/ CrossValReturn

SpecAgain == InitAgain /\ [][NextAgain]_vars

\* ------------------------------------------------------------- long sweeps
\* Tables and logs long enough for the sort to partition: one estimator and
\* one metric at a time, cross_validate known beforehand.
MaxLongFeatures == 18

featureSelectorCrossValOne ==
    /\ pc = "ready"
    /\ \E metric \in MetricNames, estimator \in EstimatorNames, step \in 1..MaxStep :
          CrossValEntry(<<metric>>, <<estimator>>, NumFolds, step)
    /\ UNCHANGED <<data_columns, estimators, rankings, resultsSummary,
                   cvOracle, prev, report>>

InitLong ==
    /\ \E n \in 1..MaxLongFeatures :
          /\ data_columns = [f \in 1..n |-> f]
          /\ estimators = <<"A">>
          /\ \E vec \in PipelineVectors(n) :
                rankings = AgreedRankings(data_columns, estimators, vec)
    /\ resultsSummary = None
    /\ \E seed \in Seeds : cvOracle = FixedOracle(seed)
    /\ cvSummary = << >>
    /\ call = None
    /\ pc = "new"
    /\ prev = None
    /\ report = NoReport

NextLong ==
    \/ featureSelectorSummary
    \/ featureSelectorCrossValOne
    \/ EstimatorBegin
    \/ CrossValidateRow
    \/ CrossValidateRaises
    \/ EstimatorEnd
    \/ CrossValReturn
    \/ featuresUsedSummary
    \/ featureSelectorResultsPlot

SpecLong == InitLong /\ [][NextLong]_vars

\* ------------------------------------------------- the rankings on their own
\* Two rankings vary freely over the features (the F-score, correlation and
\* importance columns hold the first, the variance and RFE columns the second);
\* one of the five results may lack some features, and the correlation result
\* may list its features in reverse.
ShortFrame(frame, omit) ==
    [index |-> Without(frame.index, omit),
     columns |-> frame.columns,
     values |-> [r \in 1..Len(Without(frame.index, omit)) |->
                   frame.values[RowOf(frame, Without(frame.index, omit)[r])]]]

RankingNames ==
    <<"resultsFScore", "resultsVariance", "resultsCorr", "resultsRFE",
      "resultsImportance">>

InitSummary ==
    /\ \E n \in 1..MaxRankedFeatures :
          /\ data_columns = [f \in 1..n |-> f]
          /\ estimators = <<"A">>
          /\ \E v \in [1..2 -> [1..n -> RankValues]], short \in 1..5,
                omit \in SUBSET (1..n), reversed \in BOOLEAN :
                LET full == Rankings(data_columns, estimators,
                                     <<v[1], v[2], v[1], v[2], v[1]>>,
                                     IF reversed THEN Reverse(data_columns)
                                     ELSE data_columns)
                IN  rankings = [full EXCEPT ![RankingNames[short]] =
                                                ShortFrame(@, omit)]
    /\ resultsSummary = None
    /\ cvOracle = AnyOracle
    /\ cvSummary = << >>
    /\ call = None
    /\ pc = "new"
    /\ prev = None
    /\ report = NoReport

NextSummary == featureSelectorSummary

SpecSummary == InitSummary /\ [][NextSummary]_vars

\* ================================================================== claims
NumFeatures == Len(resultsSummary.index)
Average(f) == Column(resultsSummary, <<"average">>)[RowOf(resultsSummary, f)]
Leq(a, b) == ~RatLess(b, a)
SweepLength == Ceil(NumFeatures, call.step)
InCall == pc \in {"for_estimator", "for_subset", "returned", "raised"}

\* The features are in ascending order of average, and none left out has a
\* smaller average than one taken
AscendingPrefix(top) ==
    /\ \A p, q \in 1..Len(top) : p < q => top[p] # top[q] /\ Leq(Average(top[p]), Average(top[q]))
    /\ Range(top) \subseteq Range(resultsSummary.index)
    /\ \A a \in Range(top), b \in Range(resultsSummary.index) \ Range(top) :
          Leq(Average(a), Average(b))

\* C1: the sweep evaluates exactly K = ceil(F / step) subsets per metric, at
\* i = 0, step, 2*step, ... < F; the subset at i is the first F - i features
\* in ascending order of average, so it is never empty and shrinks with i.
C1_SweepSubsets ==
    /\ (InCall /\ call.i >= 0) =>
          /\ call.i \in {i \in 0..(NumFeatures - 1) : i % call.step = 0}
          /\ Len(call.top) = NumFeatures - call.i
          /\ call.top # << >>
          /\ AscendingPrefix(call.top)
    /\ (pc = "for_subset" /\ call.pos > 1) =>
          call.i = ((call.pos - 2) % SweepLength) * call.step
    /\ (pc = "raised") =>
          call.i = ((call.pos - 1) % SweepLength) * call.step
    /\ (pc = "for_subset" /\ call.pos > Len(CallTodo(call, resultsSummary))) =>
          Len(call.cv) = Len(call.metrics) * SweepLength

\* C1 witness: 5 features, step 2, the third subset (i = 4) of one feature
C1_Witness ==
    /\ pc = "for_subset"
    /\ NumFeatures = 5 /\ call.step = 2
    /\ call.i = 4 /\ Len(call.top) = 1
    /\ Len(call.cv) = 3

\* The row of the log for the e-th estimator, m-th metric and k-th subset is
\* that triple's cross-validation
RowIsOf(row, e, m, k) ==
    LET sorted == SortValues(resultsSummary, <<"average">>).index
        key == <<call.estimators[e], call.metrics[m],
                 Take(sorted, NumFeatures - k * call.step), call.nFolds>>
        out == Outcome(cvOracle, key)
    IN  /\ row.Estimator = call.estimators[e]
        /\ row.Scoring = call.metrics[m]
        /\ ~out.raises
        /\ RatMul(row.Training_score, RatInt(call.nFolds)) = RatSum(out.train_score)
        /\ RatMul(row.Validation_score, RatInt(call.nFolds)) = RatSum(out.test_score)

\* C4: a completed run leaves |E| * |M| * K records, one per triple, grouped
\* by estimator, then by metric, then by ascending number of features dropped,
\* each with the estimator, the metric and the two means of its triple.
C4_LogOrder ==
    pc = "returned" =>
      LET nM == Len(call.metrics) IN
      /\ Len(cvSummary) = Len(call.estimators) * nM * SweepLength
      /\ \A p \in 1..Len(cvSummary) :
            RowIsOf(cvSummary[p],
                    (p - 1) \div (nM * SweepLength) + 1,
                    (((p - 1) \div SweepLength) % nM) + 1,
                    (p - 1) % SweepLength)

\* C4 witness: two estimators, two subsets each, with different scores
C4_Witness ==
    /\ pc = "returned"
    /\ call.estimators = <<"B", "A">>
    /\ Len(call.metrics) = 1 /\ SweepLength = 2
    /\ Len(cvSummary) = 4
    /\ cvSummary[1].Validation_score # cvSummary[2].Validation_score
    /\ cvSummary[1].Validation_score # cvSummary[3].Validation_score

SortedIndex == SortValues(resultsSummary, <<"average">>).index

\* positions of the records of cv with the maximal validation score
Maxima(cv) ==
    {p \in 1..Len(cv) :
       \A q \in 1..Len(cv) : Leq(cv[q].Validation_score, cv[p].Validation_score)}

First(S) == CHOOSE p \in S : \A q \in S : p <= q

\* the features marked in the k-th estimator column of the presence table
Marked(k) ==
    {report.index[r] : r \in {x \in 1..Len(report.index) : report.marks[x][k] = "X"}}

ReportCv(k) == CvOf(cvSummary, report.metric, report.columns[k])

\* C2: for every step, the best subset featuresUsedSummary reports for an
\* estimator is the feature set that was cross-validated for a record with the
\* maximal validation score: the first F - i features, i that record's index
\* in the sweep.
C2_BestSubsetIsEvaluated ==
    report.kind = "used" =>
      \A k \in 1..Len(report.columns) :
        \E p \in Maxima(ReportCv(k)) :
          Marked(k) = Range(Take(SortedIndex, NumFeatures - (p - 1) * call.step))

\* C3: among records sharing the maximal validation score, both reports choose
\* the first, the one with the fewest features dropped.
C3_TieBreak ==
    /\ report.kind = "used" =>
          \A k \in 1..Len(report.columns) :
            Marked(k) = Range(DropLast(SortedIndex, First(Maxima(ReportCv(k))) - 1))
    /\ report.kind = "plot" =>
          \A k \in 1..Len(report.plots) :
            LET cv == CvOf(cvSummary, report.metric, report.plots[k].estimator) IN
            report.plots[k].numDropped =
                (First(Maxima(cv)) - 1) * PlotStep(NumFeatures, Len(cv))

\* the features of the record at place p of an estimator's records in the
\* log: the first F - i features in consensus order, i = (p - 1) * step the
\* sweep index the record was produced at
SubsetOfRecord(p) == Range(Take(SortedIndex, NumFeatures - (p - 1) * call.step))

\* C5: the presence table has the consensus table's rows in its order and one
\* column per estimator of the log; a cell is marked exactly when the feature
\* is in the estimator's winning feature list, the features cross-validated
\* for a record of the estimator with the maximal validation score for the
\* metric; and count is the number of marked cells of the row.
C5_PresenceTable ==
    report.kind = "used" =>
      LET ests == Unique([p \in 1..Len(cvSummary) |-> cvSummary[p].Estimator]) IN
      /\ report.index = resultsSummary.index
      /\ report.columns = ests
      /\ \A k \in 1..Len(ests) :
            \E p \in Maxima(CvOf(cvSummary, report.metric, ests[k])) :
              \A r \in 1..Len(report.index) :
                /\ Len(report.marks[r]) = Len(ests)
                /\ report.marks[r][k] \in {"X", ""}
                /\ report.marks[r][k] = "X" <=> report.index[r] \in SubsetOfRecord(p)
      /\ \A r \in 1..Len(report.index) :
            report.count[r] =
                Cardinality({k \in 1..Len(ests) : report.marks[r][k] = "X"})

Evaluated(key) == cvOracle.fixed \/ key \in DOMAIN cvOracle.seen

\* C8: when cross-validation fails for a triple, the invocation still
\* evaluates every other triple and ends with the records of all that
\* succeeded.
C8_FailureIsIsolated ==
    pc \in {"returned", "raised"} =>
      \A key \in CallKeys(call.metrics, call.estimators, call.nFolds, call.step,
                          resultsSummary) :
        /\ Evaluated(key)
        /\ ~Outcome(cvOracle, key).raises =>
              \E p \in 1..Len(cvSummary) :
                /\ cvSummary[p].Estimator = key[1]
                /\ cvSummary[p].Scoring = key[2]
                /\ RatMul(cvSummary[p].Validation_score, RatInt(key[4]))
                     = RatSum(Outcome(cvOracle, key).test_score)

\* ---- the consensus table
Cell(f, name) == resultsSummary.values[RowOf(resultsSummary, f)][ColOf(resultsSummary, name)]

\* the values the ranking results hold for feature f
PerMethod(f) ==
    Concat([k \in 1..Len(SummaryResults(rankings)) |->
              LET frame == SummaryResults(rankings)[k] IN
              frame.values[RowOf(frame, f)]])

OriginalPosition(f) == CHOOSE p \in 1..Len(data_columns) : data_columns[p] = f

\* the rows' average, low and high are the mean, least and greatest of the
\* per-method values, and the rows ascend by average
ConsensusValues ==
    /\ \A f \in Range(resultsSummary.index) :
          /\ Cell(f, <<"average">>) = Mean(PerMethod(f))
          /\ Cell(f, <<"low">>) = RatMinSeq(PerMethod(f))
          /\ Cell(f, <<"high">>) = RatMaxSeq(PerMethod(f))
    /\ \A r, q \in 1..Len(resultsSummary.index) :
          r < q => Leq(Average(resultsSummary.index[r]), Average(resultsSummary.index[q]))

\* C6: average, low and high of a feature are the mean, minimum and maximum
\* of its per-method values, the rows are sorted ascending by average, and
\* features of equal average keep their original order.
C6_ConsensusOrder ==
    pc = "ready" =>
      /\ ConsensusValues
      /\ \A r, q \in 1..Len(resultsSummary.index) :
            (r < q /\ Average(resultsSummary.index[r]) = Average(resultsSummary.index[q]))
              => OriginalPosition(resultsSummary.index[r])
                   < OriginalPosition(resultsSummary.index[q])

\* C7: the features of the consensus table are those every ranking result
\* has: one missing from any result is absent, one present in all is there.
C7_ConsensusFeatures ==
    pc = "ready" =>
      /\ Range(resultsSummary.index) =
            {f \in Range(data_columns) :
               \A k \in 1..Len(SummaryResults(rankings)) :
                  f \in Range(SummaryResults(rankings)[k].index)}
      /\ \A r, q \in 1..Len(resultsSummary.index) :
            r # q => resultsSummary.index[r] # resultsSummary.index[q]

\* C7 witness: a feature the first result has and a later one lacks is absent
\* from a table that has other features
C7_Witness ==
    /\ pc = "ready"
    /\ resultsSummary.index # << >>
    /\ \E f \in Range(SummaryResults(rankings)[1].index) :
          /\ f \notin Range(resultsSummary.index)
          /\ \E k \in 2..Len(SummaryResults(rankings)) :
                f \notin Range(SummaryResults(rankings)[k].index)

\* ---- repeated invocations
SameArguments ==
    /\ prev # None
    /\ prev.metrics = call.metrics
    /\ prev.estimators = call.estimators
    /\ prev.nFolds = call.nFolds
    /\ prev.step = call.step

\* C9: with cross_validate a function of its arguments, two invocations with
\* the same arguments end the same way and leave the same log, the same
\* records in the same order.
C9_Determinism ==
    (pc \in {"returned", "raised"} /\ SameArguments) =>
      /\ pc = prev.pc
      /\ cvSummary = prev.log

\* C9 witness: a second invocation like the first has returned, several
\* records of different scores in the log
C9_Witness ==
    /\ pc = "returned"
    /\ SameArguments
    /\ Len(cvSummary) >= 3
    /\ Len(call.estimators) = 2
    /\ \E p, q \in 1..Len(cvSummary) :
          cvSummary[p].Validation_score # cvSummary[q].Validation_score

\* the estimators the invocation at hand is done with
DoneEstimators ==
    IF pc \in {"for_estimator", "returned"} THEN call.e ELSE call.e - 1

\* the rows the invocation at hand makes for its e-th estimator
InvocationRows(e) ==
    LET todo == CallTodo(call, resultsSummary) IN
    [p \in 1..Len(todo) |->
       CvRow(p - 1, call.estimators[e],
             Outcome(cvOracle, <<call.estimators[e], todo[p].metric,
                                 Top(resultsSummary, todo[p].i),
                                 call.nFolds>>),
             todo[p].metric)]

\* C10: the stored log holds the records of the latest invocation and none of
\* an earlier one, and the records appended for an estimator stay as they are
\* while the later estimators are processed: at every point of an invocation
\* the log is, in order, the rows this invocation made for the estimators it
\* is done with.
C10_LatestInvocationOnly ==
    InCall => cvSummary = Concat([e \in 1..DoneEstimators |-> InvocationRows(e)])

\* C10 witness: a second invocation, with other arguments than the first,
\* has returned and its second estimator's records follow its first's
C10_Witness ==
    /\ pc = "returned"
    /\ prev # None
    /\ prev.log # << >>
    /\ prev.estimators # call.estimators
    /\ Len(call.estimators) = 2
    /\ Len(cvSummary) = 4
    /\ cvSummary # prev.log

\* ---- the two reports against the sweep
\* C11: for the same log, estimator and metric, featureSelectorResultsPlot and
\* featuresUsedSummary find the same number of features dropped for the best
\* record, that number is the sweep index i the record was made at, and the
\* step the plot works out as ceil(F / K) is the step of the sweep.
C11_ReportsAgreeWithSweep ==
    /\ report.kind = "plot" =>
          \A k \in 1..Len(report.plots) :
            LET cv == CvOf(cvSummary, report.metric, report.plots[k].estimator) IN
            /\ PlotStep(NumFeatures, Len(cv)) = call.step
            /\ \E p \in Maxima(cv) :
                  /\ report.plots[k].numDropped = (p - 1) * call.step
                  /\ UsedNumDropped(cvSummary, report.metric,
                                    report.plots[k].estimator)
                       = (p - 1) * call.step
    /\ report.kind = "used" =>
          \A k \in 1..Len(report.columns) :
            /\ PlotStep(NumFeatures, Len(ReportCv(k))) = call.step
            /\ \E p \in Maxima(ReportCv(k)) :
                  /\ Cardinality(Marked(k)) = NumFeatures - (p - 1) * call.step
                  /\ PlotNumDropped(cvSummary, resultsSummary, report.metric,
                                    report.columns[k])
                       = (p - 1) * call.step

====
